---- MODULE Spec2Model ----
(***************************************************************************)
(* Model of init.py, the initramfs boot-provisioning agent.  The agent is  *)
(* a single sequential process: main() walks from early setup to the exec  *)
(* of the handoff script.  Every external tool, file operation and remote  *)
(* request is a nondeterministic choice of its outcome.  A run ends in one *)
(* of three ways: the exec of /tmp/kexec.sh ("EXEC"), the exec of          *)
(* /bin/bash ("EMERGENCY"), or an exception that leaves main() unhandled   *)
(* ("CRASH": the interpreter prints a traceback and the process ends).     *)
(* The disk keeps its state from one boot to the next; Reboot starts the   *)
(* next run on it.                                                         *)
(***************************************************************************)
EXTENDS Integers, FiniteSets, Sequences, TLC

\* ------------------------------------------------------------ bounds
\* Timestamps (file mtimes, config_timestamp, the wall clock) range over 0..MaxTime.
MaxTime == 1
\* Number of boots (runs of main) the model follows on one disk.
MaxRuns == 2

\* Length of the lists systemd.enable and systemd.disable.
MaxServices == 2
\* Active arrays assemble_raid finds, and routes of an interface entry.
MaxArrays == 2
MaxRoutes == 2

Times == 0..MaxTime

\* ------------------------------------------------------------ program constants
\* transfer_rootfs(max_retries=5, delay=10)
max_retries == 5
delay == 10
\* read_node_configuration: for retry in range(0, 5)
config_attempts == 5

\* Files of the root filesystem image that rsync brings onto the target root.
KERNEL == "boot/vmlinuz"
INITRD == "boot/initrd.img"
ImageFiles == {KERNEL, INITRD}

HOSTNAME == "etc/hostname"
RESOLV == "etc/resolv.conf"
AUTHKEYS == "root/.ssh/authorized_keys"
NETPLAN == "etc/netplan/01-netcfg.yaml"
IFCFG == "etc/network/interfaces.d/eno1.cfg"

\* Files of the initramfs scratch directory /tmp.
TMP_VMLINUZ == "/tmp/vmlinuz"
TMP_INITRD == "/tmp/initrd.img"
TMP_KEXEC == "/tmp/kexec.sh"

\* ------------------------------------------------------------ inputs
\* /ignition.json as shipped in the initramfs: whether it parses, whether a
\* filesystem with path "/" is declared, whether its device is an md device,
\* and its uuid ("absent": the entry has no uuid key; "": an empty uuid).
IgnitionSet ==
  { [readable |-> FALSE, hasRoot |-> FALSE, md |-> FALSE, uuid |-> "absent"],
    [readable |-> TRUE,  hasRoot |-> FALSE, md |-> FALSE, uuid |-> "absent"],
    [readable |-> TRUE,  hasRoot |-> TRUE,  md |-> FALSE, uuid |-> "1111-AAAA"],
    [readable |-> TRUE,  hasRoot |-> TRUE,  md |-> FALSE, uuid |-> "absent"],
    [readable |-> TRUE,  hasRoot |-> TRUE,  md |-> TRUE,  uuid |-> "1111-AAAA"] }

\* config_timestamp as the config server sends it: a value int() accepts
\* (parses, with its seconds) or one it rejects.
TimestampSet ==
  { [parses |-> TRUE, secs |-> t] : t \in Times } \cup { [parses |-> FALSE, secs |-> 0] }

\* The node configuration returned by the config server.
NodeConfigSet ==
  [ provisioning_status : {"initial", "sync"},
    config_timestamp : TimestampSet,
    os_type : {"ubuntu", "dgx"} ]

\* NodeConfig before read_node_configuration has returned (None in the source).
NoConfig ==
  [ provisioning_status |-> "none",
    config_timestamp |-> [parses |-> FALSE, secs |-> 0],
    os_type |-> "none" ]

\* BOOTSTRAPPED_MARKER on the target root: absent, or a script with an mtime and
\* the kernel command line written into it.
NoMarker == [exists |-> FALSE, mtime |-> 0, cmdline |-> << >>]

\* The disk as a boot can find it: no root device yet, a device without a
\* filesystem, or a filesystem with any combination of markers.
DiskSet ==
  { [partitioned |-> FALSE, hasFs |-> FALSE, fsMarker |-> FALSE, rootfs |-> {}, bs |-> NoMarker],
    [partitioned |-> TRUE,  hasFs |-> FALSE, fsMarker |-> FALSE, rootfs |-> {}, bs |-> NoMarker] }
  \cup
  { [partitioned |-> TRUE, hasFs |-> TRUE, fsMarker |-> m, rootfs |-> (IF m THEN ImageFiles ELSE {}), bs |-> b] :
      m \in BOOLEAN,
      b \in {NoMarker} \cup { [exists |-> TRUE, mtime |-> t, cmdline |-> <<"old">>] : t \in Times } }

\* ------------------------------------------------------------ state
VARIABLES
  pc,             \* position of main()
  outcome,        \* "running", "EXEC", "EMERGENCY" or "CRASH"
  run,            \* number of the current boot
  now,            \* the latest reading of the wall clock in this boot
  IgnitionConfig, \* the ignition declaration of the initramfs image
  NodeConfig,     \* the node configuration, NoConfig until fetched
  network,        \* configure_network obtained a lease
  tmp0,           \* files the initramfs image ships in /tmp
  tmp,            \* files in /tmp
  partitioned,    \* the root device (partition or array) has been created
  devExists,      \* the root device node exists in /dev
  hasFs,          \* the root device carries a filesystem
  mounted,        \* the root device is mounted at /sysroot
  fsMarker,       \* FS_INSTALLED_MARKER exists on the target root
  bsMarker,       \* BOOTSTRAPPED_MARKER on the target root
  rootfs,         \* other files on the target root
  retry_count,    \* transfer_rootfs: failed rsync invocations of this call
  syncReturn,     \* transfer_rootfs: where main() continues after the call
  compare_ret,    \* result of compare_file_mtime_with_unix_timestamp
  \* history of the current run
  toolsOk,        \* no external tool, file operation or request has failed
  rsyncCalls,     \* transfer_rootfs: rsync invocations of this call
  syncerCalls,    \* calls of transfer_rootfs
  sleptSeconds,   \* transfer_rootfs: seconds slept by this call
  syncExhausted,  \* transfer_rootfs gave up after max_retries failures
  partitionerCalls, \* calls of provision_storage, the storage provisioner
  genCalls,       \* calls of generate_bootstrapped_file
  genFailed,      \* a call of generate_bootstrapped_file did not write the script
  bsWrites,       \* times write_kexec_command wrote the script
  written,        \* target-root files written by main() itself
  disk0,          \* the disk as this run found it
  fs0,            \* FS_INSTALLED_MARKER as the mount found it: "none" before the mount
  bs0,            \* BOOTSTRAPPED_MARKER as line 916 found it
  rsyncRan,       \* rsync has been invoked in this run
  dev0,           \* the root device node as line 895 found it: "unknown" before
  type0,          \* what get_filesystem_type reported at line 901: "unknown" before
  provisionFailed, \* provision_storage has returned False
  retry,          \* read_node_configuration: responses that were not JSON
  mac,            \* what get_mac_address_for_ip returned: "unknown" before, "none" for None
  requested,      \* read_node_configuration has issued a GET
  \* history of the disk
  fsMarker0,      \* FS_INSTALLED_MARKER existed before the first boot
  everSyncOk,     \* an rsync onto the current filesystem has succeeded
  \* the application of a function on its own
  fn,             \* the function applied, "idle" when none is
  arg,            \* its arguments
  applied,        \* it has returned
  result          \* what it returned

vars ==
  << pc, outcome, run, now, IgnitionConfig, NodeConfig, network, tmp0, tmp,
     partitioned, devExists, hasFs, mounted, fsMarker, bsMarker, rootfs,
     retry_count, syncReturn, compare_ret,
     toolsOk, rsyncCalls, syncerCalls, sleptSeconds, syncExhausted,
     partitionerCalls, genCalls, genFailed, bsWrites, written, disk0,
     fs0, bs0, rsyncRan, dev0, type0, provisionFailed, retry, mac, requested,
     fsMarker0, everSyncOk, fn, arg, applied, result >>

diskVars == << partitioned, hasFs, fsMarker, bsMarker, rootfs, everSyncOk >>
syncVars == << retry_count, syncReturn, rsyncCalls, syncerCalls, sleptSeconds, syncExhausted >>
genVars == << genCalls, genFailed, bsWrites >>
rootVars == << devExists, partitionerCalls >>
inputVars == << run, IgnitionConfig, tmp0, disk0, fsMarker0 >>
rootHist == << dev0, type0, provisionFailed >>
configHist == << retry, mac, requested >>
pureVars == << fn, arg, applied, result >>

\* The disk as a record, for disk0.
Disk ==
  [partitioned |-> partitioned, hasFs |-> hasFs, fsMarker |-> fsMarker,
   rootfs |-> rootfs, bs |-> bsMarker]

\* The volatile state at the start of a boot.
Boot ==
  /\ pc = "early"
  /\ outcome = "running"
  /\ NodeConfig = NoConfig
  /\ network = FALSE
  /\ devExists = FALSE
  /\ mounted = FALSE
  /\ retry_count = 0
  /\ syncReturn = "none"
  /\ compare_ret = 0
  /\ toolsOk = TRUE
  /\ rsyncCalls = 0
  /\ syncerCalls = 0
  /\ sleptSeconds = 0
  /\ syncExhausted = FALSE
  /\ partitionerCalls = 0
  /\ genCalls = 0
  /\ genFailed = FALSE
  /\ bsWrites = 0
  /\ written = {}
  /\ fs0 = "none"
  /\ bs0 = NoMarker
  /\ rsyncRan = FALSE
  /\ dev0 = "unknown"
  /\ type0 = "unknown"
  /\ provisionFailed = FALSE
  /\ retry = 0
  /\ mac = "unknown"
  /\ requested = FALSE

\* No function is being applied on its own.
Idle ==
  /\ fn = "idle"
  /\ arg = << >>
  /\ applied = FALSE
  /\ result = << >>

Init ==
  /\ Boot
  /\ run = 1
  /\ now = 0
  /\ IgnitionConfig \in IgnitionSet
  /\ tmp0 \in {{}, {TMP_VMLINUZ, TMP_INITRD}}
  /\ tmp = tmp0
  /\ \E d \in DiskSet :
       /\ partitioned = d.partitioned
       /\ hasFs = d.hasFs
       /\ fsMarker = d.fsMarker
       /\ bsMarker = d.bs
       /\ rootfs = d.rootfs
       /\ disk0 = d
       /\ fsMarker0 = d.fsMarker
  /\ everSyncOk = FALSE
  /\ Idle

\* ------------------------------------------------------------ ways a run ends
\* An exception propagates out of main(): line 996 never reaches line 997.
Crash ==
  /\ pc' = "done"
  /\ outcome' = "CRASH"

\* os.execv("/bin/bash", ["bash"])
Emergency ==
  /\ pc' = "done"
  /\ outcome' = "EMERGENCY"

\* ------------------------------------------------------------ CONFIG
\* main(), lines 865-878: /sysroot is created, /proc and /sys are mounted (a
\* failure of these is printed and main() goes on), the modules are loaded and
\* lsmod is run, /dev is populated, DHCP is tried on every interface.  lsmod,
\* mdev and "ip link set up" are run with check_success and raise on failure;
\* the result of configure_network is not looked at.
EarlySetup ==
  /\ pc = "early"
  /\ \E r \in {"lease", "nolease", "raise"} :
       /\ toolsOk' = (r = "lease")
       /\ network' = (r = "lease")
       /\ IF r = "raise"
            THEN Crash
            ELSE pc' = "config" /\ outcome' = outcome
  /\ UNCHANGED << NodeConfig, rootVars, mounted, tmp, compare_ret, written >>
  /\ UNCHANGED << diskVars, syncVars, genVars, inputVars, now >>
  /\ UNCHANGED << fs0, bs0, rsyncRan >>
  /\ UNCHANGED << rootHist, configHist, pureVars >>

\* What one GET of read_node_configuration (lines 576-578) can meet: a 2xx
\* response with JSON, a 2xx response of another content type, a non-2xx
\* status (raise_for_status raises HTTPError), a transport failure
\* (requests.get raises).
Responses == {"json", "other", "status", "transport"}

\* get_mac_address_for_ip (lines 547-565), called once at line 574 before the
\* loop: the hardware address of the interface that owns the outbound
\* address, None when no interface does.
MacChoices == IF mac = "unknown" THEN {"found", "none"} ELSE {mac}

\* The URL of line 576 is built from whatever line 574 returned; for None it
\* is .../nodes/None.json.  The config server is taken to have no node of
\* that name: it answers such a GET with anything but a node configuration.
ResponsesFor(m) == IF m = "none" THEN Responses \ {"json"} ELSE Responses

\* main(), lines 880-884, with one iteration of the loop of
\* read_node_configuration (lines 571-580).  Without a route to the config
\* server get_my_ip raises socket.error.  The exceptions of requests.get and
\* raise_for_status are not caught, neither in the loop nor in main(); only a
\* response that is not JSON leads to the next iteration, and after
\* config_attempts of them the function returns None and main() execs the
\* shell.
ReadNodeConfiguration ==
  /\ pc = "config"
  /\ IF ~network
       THEN /\ Crash
            /\ UNCHANGED << NodeConfig, toolsOk, configHist >>
       ELSE \E m \in MacChoices : \E response \in ResponsesFor(m) :
              /\ mac' = m
              /\ requested' = TRUE
              /\ CASE response = "json" ->
                     /\ \E c \in NodeConfigSet : NodeConfig' = c
                     /\ retry' = 0
                     /\ pc' = "ignition"
                     /\ UNCHANGED << outcome, toolsOk >>
                [] response = "other" ->
                     /\ retry' = retry + 1
                     /\ toolsOk' = (toolsOk /\ retry + 1 < config_attempts)
                     /\ IF retry + 1 < config_attempts
                          THEN UNCHANGED << pc, outcome >>
                          ELSE Emergency
                     /\ UNCHANGED NodeConfig
                [] OTHER ->
                     /\ Crash
                     /\ toolsOk' = FALSE
                     /\ UNCHANGED << NodeConfig, retry >>
  /\ UNCHANGED << network, rootVars, mounted, tmp, compare_ret, written >>
  /\ UNCHANGED << diskVars, syncVars, genVars, inputVars, now >>
  /\ UNCHANGED << fs0, bs0, rsyncRan >>
  /\ UNCHANGED << rootHist, pureVars >>

\* main(), lines 886-890: read_ignition_file returns False on a missing or
\* malformed file and main() returns, so line 997 execs the shell;
\* get_ignition_root raises when no filesystem has path "/".
ReadIgnition ==
  /\ pc = "ignition"
  /\ IF ~IgnitionConfig.readable
       THEN Emergency
       ELSE IF ~IgnitionConfig.hasRoot
         THEN Crash
         ELSE pc' = "raid" /\ outcome' = outcome
  /\ UNCHANGED << NodeConfig, network, rootVars, mounted, tmp, compare_ret, toolsOk, written >>
  /\ UNCHANGED << diskVars, syncVars, genVars, inputVars, now >>
  /\ UNCHANGED << fs0, bs0, rsyncRan >>
  /\ UNCHANGED << rootHist, configHist, pureVars >>

\* ------------------------------------------------------------ ROOT
\* assemble_raid (lines 278-296), called at line 891; its result is not looked
\* at.  For an md root the array is assembled when it has been created and
\* mdadm succeeds; a CalledProcessError is caught.  For any other root the
\* device node is there when the partition is.
AssembleRaid ==
  /\ pc = "raid"
  /\ IF IgnitionConfig.md /\ partitioned
       THEN \E ok \in BOOLEAN :
              /\ devExists' = ok
              /\ toolsOk' = (toolsOk /\ ok)
       ELSE /\ devExists' = (partitioned /\ ~IgnitionConfig.md)
            /\ UNCHANGED toolsOk
  /\ pc' = "chkdev"
  /\ UNCHANGED << outcome, NodeConfig, network, mounted, tmp, compare_ret, written, partitionerCalls >>
  /\ UNCHANGED << diskVars, syncVars, genVars, inputVars, now >>
  /\ UNCHANGED << fs0, bs0, rsyncRan >>
  /\ UNCHANGED << rootHist, configHist, pureVars >>

\* provision_storage (lines 393-420) succeeding: the partitioner has created
\* the device and its filesystem.  A filesystem that was already there is kept
\* or recreated empty (wipe), as the ignition declaration asks.
Provisioned(wipe) ==
  /\ partitionerCalls' = partitionerCalls + 1
  /\ partitioned' = TRUE
  /\ devExists' = TRUE
  /\ hasFs' = TRUE
  /\ IF wipe \/ ~hasFs
       THEN /\ fsMarker' = FALSE
            /\ bsMarker' = NoMarker
            /\ rootfs' = {}
            /\ everSyncOk' = FALSE
       ELSE UNCHANGED << fsMarker, bsMarker, rootfs, everSyncOk >>
  /\ UNCHANGED provisionFailed

\* ProvisionFailed with main() going on to the mount instead of the shell.
ProvisionFailed_GoesOn ==
  /\ partitionerCalls' = partitionerCalls + 1
  /\ provisionFailed' = TRUE
  /\ toolsOk' = FALSE
  /\ pc' = "mount"
  /\ UNCHANGED << outcome, devExists, diskVars >>

\* provision_storage returning False (lines 404-418: /ignition.json is gone,
\* the copy to /run/ignition.json fails, or the partitioner exits non-zero):
\* main() execs the shell (lines 896-897, 902-903).
ProvisionFailed ==
  /\ partitionerCalls' = partitionerCalls + 1
  /\ provisionFailed' = TRUE
  /\ toolsOk' = FALSE
  /\ Emergency
  /\ UNCHANGED << devExists, diskVars >>

\* provision_storage, line 399: `mkdir -p /run` is run with check_success and
\* raises when it fails; the partitioner is not reached.
ProvisionRaised ==
  /\ partitionerCalls' = partitionerCalls + 1
  /\ toolsOk' = FALSE
  /\ Crash
  /\ UNCHANGED << devExists, diskVars, provisionFailed >>

\* DeviceMissing never finding the device missing.
DeviceMissing_Never(exists) == FALSE

\* main(), line 895: not os.path.exists(root_fs.device).
DeviceMissing(exists) == ~exists

\* main(), lines 893-897: the device node is missing.
CheckDevice ==
  /\ pc = "chkdev"
  /\ dev0' = IF devExists THEN "present" ELSE "absent"
  /\ IF ~DeviceMissing(devExists)
       THEN /\ pc' = "chkfs"
            /\ UNCHANGED << outcome, toolsOk, devExists, partitionerCalls, diskVars, provisionFailed >>
       ELSE \/ /\ \E wipe \in BOOLEAN : Provisioned(wipe)
               /\ pc' = "chkfs"
               /\ UNCHANGED << outcome, toolsOk >>
            \/ ProvisionFailed
            \/ ProvisionRaised
  /\ UNCHANGED << NodeConfig, network, mounted, tmp, compare_ret, written >>
  /\ UNCHANGED << syncVars, genVars, inputVars, now >>
  /\ UNCHANGED << fs0, bs0, rsyncRan >>
  /\ UNCHANGED << type0, configHist, pureVars >>

\* get_filesystem_type (lines 298-334): the TYPE blkid reports, None when blkid
\* exits non-zero or reports no TYPE.
get_filesystem_type(fs, blkidOk) == fs /\ blkidOk

\* main(), lines 899-903: no filesystem type is reported for the device.
CheckFilesystem ==
  /\ pc = "chkfs"
  /\ \E blkidOk \in BOOLEAN :
       /\ type0' = IF get_filesystem_type(hasFs, blkidOk) THEN "fs" ELSE "none"
       /\ IF get_filesystem_type(hasFs, blkidOk)
            THEN /\ pc' = "mount"
                 /\ UNCHANGED << outcome, toolsOk, devExists, partitionerCalls, diskVars, provisionFailed >>
            ELSE \/ /\ \E wipe \in BOOLEAN : Provisioned(wipe)
                    /\ pc' = "mount"
                    /\ toolsOk' = (toolsOk /\ (blkidOk \/ ~hasFs))
                    /\ UNCHANGED outcome
                 \/ ProvisionFailed
                 \/ ProvisionRaised
  /\ UNCHANGED << NodeConfig, network, mounted, tmp, compare_ret, written >>
  /\ UNCHANGED << syncVars, genVars, inputVars, now >>
  /\ UNCHANGED << fs0, bs0, rsyncRan >>
  /\ UNCHANGED << dev0, configHist, pureVars >>

\* main(), lines 905-906, with a mount whose failure is printed and ignored.
MountRoot_FailureIgnored ==
  /\ pc = "mount"
  /\ \E ok \in BOOLEAN :
       /\ mounted' = ok
       /\ toolsOk' = (toolsOk /\ ok)
  /\ fs0' = IF fsMarker THEN "present" ELSE "absent"
  /\ pc' = "sync1"
  /\ UNCHANGED << outcome, NodeConfig, network, rootVars, tmp, compare_ret, written >>
  /\ UNCHANGED << diskVars, syncVars, genVars, inputVars, now >>
  /\ UNCHANGED << bs0, rsyncRan >>
  /\ UNCHANGED << rootHist, configHist, pureVars >>

\* main(), lines 905-906: run_command raises when mount fails.
MountRoot ==
  /\ pc = "mount"
  /\ \/ /\ mounted' = TRUE
        /\ fs0' = IF fsMarker THEN "present" ELSE "absent"
        /\ pc' = "sync1"
        /\ UNCHANGED << outcome, toolsOk >>
     \/ /\ Crash
        /\ toolsOk' = FALSE
        /\ UNCHANGED << mounted, fs0 >>
  /\ UNCHANGED << NodeConfig, network, rootVars, tmp, compare_ret, written >>
  /\ UNCHANGED << diskVars, syncVars, genVars, inputVars, now >>
  /\ UNCHANGED << bs0, rsyncRan >>
  /\ UNCHANGED << rootHist, configHist, pureVars >>

\* ------------------------------------------------------------ SYNC
\* The call of transfer_rootfs (line 446): retry_count = 0, then the loop.
CallTransfer(ret) ==
  /\ syncerCalls' = syncerCalls + 1
  /\ retry_count' = 0
  /\ rsyncCalls' = 0
  /\ sleptSeconds' = 0
  /\ syncReturn' = ret
  /\ pc' = "rsync"
  /\ UNCHANGED syncExhausted

\* NeedsInstall asking for the copy whatever the marker says.
NeedsInstall_Always(marker) == TRUE

\* main(), line 909: the rootfs has not been copied yet.
NeedsInstall(marker) == ~marker

\* NeedsResync testing for the wrong status.
NeedsResync_WrongStatus(cfg) == cfg.provisioning_status = "initial"

\* main(), line 913: the node configuration asks for a resync.
NeedsResync(cfg) == cfg.provisioning_status = "sync"

\* main(), lines 908-911.
SyncIfNotInstalled ==
  /\ pc = "sync1"
  /\ IF NeedsInstall(fsMarker)
       THEN CallTransfer("sync2")
       ELSE pc' = "sync2" /\ UNCHANGED syncVars
  /\ UNCHANGED << outcome, NodeConfig, network, rootVars, mounted, tmp, compare_ret, toolsOk, written >>
  /\ UNCHANGED << diskVars, genVars, inputVars, now >>
  /\ UNCHANGED << fs0, bs0, rsyncRan >>
  /\ UNCHANGED << rootHist, configHist, pureVars >>

\* main(), lines 913-914.
SyncIfRequested ==
  /\ pc = "sync2"
  /\ IF NeedsResync(NodeConfig)
       THEN CallTransfer("handoff1")
       ELSE pc' = "handoff1" /\ UNCHANGED syncVars
  /\ UNCHANGED << outcome, NodeConfig, network, rootVars, mounted, tmp, compare_ret, toolsOk, written >>
  /\ UNCHANGED << diskVars, genVars, inputVars, now >>
  /\ UNCHANGED << fs0, bs0, rsyncRan >>
  /\ UNCHANGED << rootHist, configHist, pureVars >>

\* transfer_rootfs, lines 451-453: rsync exits zero and the loop is left.
RsyncSucceeded ==
  /\ pc = "rsync"
  /\ rsyncRan' = TRUE
  /\ rsyncCalls' = rsyncCalls + 1
  /\ rootfs' = rootfs \cup ImageFiles
  /\ everSyncOk' = TRUE
  /\ pc' = "installed"
  /\ UNCHANGED << retry_count, syncReturn, syncerCalls, sleptSeconds, syncExhausted >>
  /\ UNCHANGED << outcome, partitioned, hasFs, fsMarker, bsMarker, toolsOk >>
  /\ UNCHANGED << NodeConfig, network, rootVars, mounted, tmp, compare_ret, written >>
  /\ UNCHANGED << genVars, inputVars, now >>
  /\ UNCHANGED << fs0, bs0 >>
  /\ UNCHANGED << rootHist, configHist, pureVars >>

\* transfer_rootfs, lines 466-467: _create_marker_file (lines 75-95) writes
\* FS_INSTALLED_MARKER, an IOError there is printed as a warning; the call
\* returns True and its locals are gone.
CreateMarker ==
  /\ pc = "installed"
  /\ \E created \in BOOLEAN :
       /\ fsMarker' = (fsMarker \/ created)
       /\ toolsOk' = (toolsOk /\ created)
  /\ pc' = syncReturn
  /\ retry_count' = 0
  /\ rsyncCalls' = 0
  /\ sleptSeconds' = 0
  /\ syncReturn' = "none"
  /\ UNCHANGED << syncerCalls, syncExhausted >>
  /\ UNCHANGED << outcome, partitioned, hasFs, bsMarker, rootfs, everSyncOk >>
  /\ UNCHANGED << NodeConfig, network, rootVars, mounted, tmp, compare_ret, written >>
  /\ UNCHANGED << genVars, inputVars, now >>
  /\ UNCHANGED << fs0, bs0, rsyncRan >>
  /\ UNCHANGED << rootHist, configHist, pureVars >>

\* RetriesExhausted allowing one attempt too many.
RetriesExhausted_OffByOne(count) == count > max_retries

\* transfer_rootfs, line 458.
RetriesExhausted(count) == count >= max_retries

\* RsyncFailed reaching _create_marker_file although rsync failed.
RsyncFailed_CreatesMarker ==
  /\ pc = "rsync"
  /\ rsyncRan' = TRUE
  /\ rsyncCalls' = rsyncCalls + 1
  /\ retry_count' = retry_count + 1
  /\ toolsOk' = FALSE
  /\ IF RetriesExhausted(retry_count + 1)
       THEN /\ syncExhausted' = TRUE
            /\ Crash
       ELSE /\ pc' = "sleep"
            /\ UNCHANGED << syncExhausted, outcome >>
  /\ UNCHANGED << syncReturn, syncerCalls, sleptSeconds >>
  /\ UNCHANGED << NodeConfig, network, rootVars, mounted, tmp, compare_ret, written >>
  /\ fsMarker' = TRUE
  /\ UNCHANGED << partitioned, hasFs, bsMarker, rootfs, everSyncOk >>
  /\ UNCHANGED << genVars, inputVars, now >>
  /\ UNCHANGED << fs0, bs0 >>
  /\ UNCHANGED << rootHist, configHist, pureVars >>

\* transfer_rootfs, lines 454-460: rsync exits non-zero; after max_retries
\* failures the CalledProcessError is raised again, and nothing in main()
\* catches it.  (The files a failed transfer leaves behind are not tracked.)
RsyncFailed ==
  /\ pc = "rsync"
  /\ rsyncRan' = TRUE
  /\ rsyncCalls' = rsyncCalls + 1
  /\ retry_count' = retry_count + 1
  /\ toolsOk' = FALSE
  /\ IF RetriesExhausted(retry_count + 1)
       THEN /\ syncExhausted' = TRUE
            /\ Crash
       ELSE /\ pc' = "sleep"
            /\ UNCHANGED << syncExhausted, outcome >>
  /\ UNCHANGED << syncReturn, syncerCalls, sleptSeconds >>
  /\ UNCHANGED << NodeConfig, network, rootVars, mounted, tmp, compare_ret, written >>
  /\ UNCHANGED << diskVars, genVars, inputVars, now >>
  /\ UNCHANGED << fs0, bs0 >>
  /\ UNCHANGED << rootHist, configHist, pureVars >>

\* transfer_rootfs, lines 462-464: time.sleep(delay) before the next attempt.
Sleep ==
  /\ pc = "sleep"
  /\ sleptSeconds' = sleptSeconds + delay
  /\ pc' = "rsync"
  /\ UNCHANGED << retry_count, syncReturn, rsyncCalls, syncerCalls, syncExhausted >>
  /\ UNCHANGED << outcome, NodeConfig, network, rootVars, mounted, tmp, compare_ret, toolsOk, written >>
  /\ UNCHANGED << diskVars, genVars, inputVars, now >>
  /\ UNCHANGED << fs0, bs0, rsyncRan >>
  /\ UNCHANGED << rootHist, configHist, pureVars >>

\* ------------------------------------------------------------ HANDOFF
\* generate_bootstrapped_file, lines 499-508: the kernel command line, as the
\* pieces the f-strings put together, blanks included: kernel_arguments, for an
\* md root " rd.md=1 rd.md.auto=1 rd.md.uuid=<raid uuid> ", then
\* " root=UUID=<uuid> ".
KexecCmdline(ign) ==
  << "kernel_arguments" >>
  \o (IF ign.md
        THEN << " ", "rd.md=1", " ", "rd.md.auto=1", " ", "rd.md.uuid=", "raid-uuid", " " >>
        ELSE << >>)
  \o << " ", "root=UUID=", ign.uuid, " " >>

\* write_kexec_command without the tests of lines 233-249.
write_kexec_preconditions_Skipped(files) == TRUE

\* write_kexec_command, lines 233-249: the three arguments are non-empty,
\* kernel_path and initramfs_path are files, /sysroot is a directory.
write_kexec_preconditions(files) ==
  /\ TMP_VMLINUZ \in files
  /\ TMP_INITRD \in files

\* generate_bootstrapped_file (lines 481-531), called by main() which then
\* goes on at `next` whatever it returned.  root_fs.uuid raises AttributeError
\* when the entry has no uuid; an empty uuid leads to the test
\* `'storage' in IgnitionConfig`, a TypeError; an md root whose uuid mdadm does
\* not give raises; write_kexec_command (lines 217-266) returns False when a
\* precondition fails or the file cannot be written.
generate_bootstrapped_file(next) ==
  /\ genCalls' = genCalls + 1
  /\ \E raidOk \in BOOLEAN, ioOk \in BOOLEAN, t \in now..MaxTime :
       IF IgnitionConfig.uuid \in {"absent", ""}
         THEN /\ Crash
              /\ genFailed' = TRUE
              /\ UNCHANGED << bsMarker, bsWrites, toolsOk, now >>
         ELSE IF IgnitionConfig.md /\ ~raidOk
           THEN /\ Crash
                /\ genFailed' = TRUE
                /\ toolsOk' = FALSE
                /\ UNCHANGED << bsMarker, bsWrites, now >>
           ELSE IF write_kexec_preconditions(tmp) /\ ioOk
             THEN /\ bsMarker' = [exists |-> TRUE, mtime |-> t, cmdline |-> KexecCmdline(IgnitionConfig)]
                  /\ now' = t
                  /\ bsWrites' = bsWrites + 1
                  /\ pc' = next
                  /\ UNCHANGED << genFailed, toolsOk, outcome >>
             ELSE /\ genFailed' = TRUE
                  /\ toolsOk' = (toolsOk /\ ~write_kexec_preconditions(tmp))
                  /\ pc' = next
                  /\ UNCHANGED << bsMarker, bsWrites, outcome, now >>

\* main(), lines 916-918.
GenerateIfAbsent ==
  /\ pc = "handoff1"
  /\ bs0' = bsMarker
  /\ IF ~bsMarker.exists
       THEN generate_bootstrapped_file("compare")
       ELSE /\ pc' = "compare"
            /\ UNCHANGED << outcome, toolsOk, bsMarker, genVars, now >>
  /\ UNCHANGED << partitioned, hasFs, fsMarker, rootfs, everSyncOk >>
  /\ UNCHANGED << NodeConfig, network, rootVars, mounted, tmp, compare_ret, written >>
  /\ UNCHANGED << syncVars, inputVars >>
  /\ UNCHANGED << fs0, rsyncRan >>
  /\ UNCHANGED << rootHist, configHist, pureVars >>

\* compare_file_mtime_with_unix_timestamp taking an equal mtime for an older one.
compare_file_mtime_OlderOrEqual(file, unix_timestamp_str) ==
  IF ~file.exists THEN -2
  ELSE IF ~unix_timestamp_str.parses THEN -2
  ELSE IF file.mtime > unix_timestamp_str.secs THEN 1
  ELSE -1

\* compare_file_mtime_with_unix_timestamp (lines 600-636): -2 when the file
\* is missing or the timestamp is not an integer, else the sign of
\* mtime - timestamp.
compare_file_mtime_with_unix_timestamp(file, unix_timestamp_str) ==
  IF ~file.exists THEN -2
  ELSE IF ~unix_timestamp_str.parses THEN -2
  ELSE IF file.mtime > unix_timestamp_str.secs THEN 1
  ELSE IF file.mtime < unix_timestamp_str.secs THEN -1
  ELSE 0

\* main(), lines 920-926.
CompareTimestamp ==
  /\ pc = "compare"
  /\ compare_ret' = compare_file_mtime_with_unix_timestamp(bsMarker, NodeConfig.config_timestamp)
  /\ pc' = IF compare_ret' = -1 THEN "regen" ELSE "personalize"
  /\ UNCHANGED << outcome, NodeConfig, network, rootVars, mounted, tmp, toolsOk, written >>
  /\ UNCHANGED << diskVars, syncVars, genVars, inputVars, now >>
  /\ UNCHANGED << fs0, bs0, rsyncRan >>
  /\ UNCHANGED << rootHist, configHist, pureVars >>

\* main(), lines 926-928.
Regenerate ==
  /\ pc = "regen"
  /\ generate_bootstrapped_file("personalize")
  /\ UNCHANGED << partitioned, hasFs, fsMarker, rootfs, everSyncOk >>
  /\ UNCHANGED << NodeConfig, network, rootVars, mounted, tmp, compare_ret, written >>
  /\ UNCHANGED << syncVars, inputVars >>
  /\ UNCHANGED << fs0, bs0, rsyncRan >>
  /\ UNCHANGED << rootHist, configHist, pureVars >>

\* ------------------------------------------------------------ PERSONALIZE
PersonalFiles == << HOSTNAME, RESOLV, AUTHKEYS >>

\* main(), lines 930-952: hostname, resolv.conf and authorized_keys are written
\* in this order; any exception execs the shell.
Personalize ==
  /\ pc = "personalize"
  /\ \E k \in 0..Len(PersonalFiles) :
       LET done == { PersonalFiles[i] : i \in 1..k } IN
       /\ rootfs' = rootfs \cup done
       /\ written' = written \cup done
       /\ IF k = Len(PersonalFiles)
            THEN pc' = "netcfg" /\ UNCHANGED << outcome, toolsOk >>
            ELSE Emergency /\ toolsOk' = FALSE
  /\ UNCHANGED << partitioned, hasFs, fsMarker, bsMarker, everSyncOk >>
  /\ UNCHANGED << NodeConfig, network, rootVars, mounted, tmp, compare_ret >>
  /\ UNCHANGED << syncVars, genVars, inputVars, now >>
  /\ UNCHANGED << fs0, bs0, rsyncRan >>
  /\ UNCHANGED << rootHist, configHist, pureVars >>

\* The file of the backend os_type selects (main(), lines 958-964).
BackendFile(cfg) == IF cfg.os_type = "dgx" THEN IFCFG ELSE NETPLAN

\* main(), lines 954-968: remove_netplan_files removes the .yaml files of
\* /sysroot/etc/netplan (a failing os.remove is printed), then the backend's
\* file is written by save_config_files (a failing write is printed); an
\* exception execs the shell.
NetworkConfig ==
  /\ pc = "netcfg"
  /\ \/ \E removed \in BOOLEAN, saved \in BOOLEAN :
          LET kept == IF removed THEN rootfs \ {NETPLAN} ELSE rootfs
              new == IF saved THEN {BackendFile(NodeConfig)} ELSE {}
          IN /\ rootfs' = kept \cup new
             /\ written' = written \cup new
             /\ toolsOk' = (toolsOk /\ saved /\ (removed \/ NETPLAN \notin rootfs))
             /\ pc' = "copy"
             /\ UNCHANGED outcome
     \/ /\ Emergency
        /\ toolsOk' = FALSE
        /\ UNCHANGED << rootfs, written >>
  /\ UNCHANGED << partitioned, hasFs, fsMarker, bsMarker, everSyncOk >>
  /\ UNCHANGED << NodeConfig, network, rootVars, mounted, tmp, compare_ret >>
  /\ UNCHANGED << syncVars, genVars, inputVars, now >>
  /\ UNCHANGED << fs0, bs0, rsyncRan >>
  /\ UNCHANGED << rootHist, configHist, pureVars >>

\* main(), lines 970-974: shutil.copyfile of the kernel, the initrd and
\* BOOTSTRAPPED_MARKER into /tmp; a missing source or a failing copy raises,
\* and nothing catches it.
CopyToScratch ==
  /\ pc = "copy"
  /\ \E ioOk \in BOOLEAN :
       IF ioOk /\ KERNEL \in rootfs /\ INITRD \in rootfs /\ bsMarker.exists
         THEN /\ tmp' = tmp \cup {TMP_VMLINUZ, TMP_INITRD, TMP_KEXEC}
              /\ pc' = "systemd"
              /\ UNCHANGED << outcome, toolsOk >>
         ELSE /\ tmp' = IF ~ioOk THEN tmp
                        ELSE IF KERNEL \notin rootfs THEN tmp
                        ELSE IF INITRD \notin rootfs THEN tmp \cup {TMP_VMLINUZ}
                        ELSE tmp \cup {TMP_VMLINUZ, TMP_INITRD}
              /\ toolsOk' = (toolsOk /\ ioOk)
              /\ Crash
  /\ UNCHANGED << NodeConfig, network, rootVars, mounted, compare_ret, written >>
  /\ UNCHANGED << diskVars, syncVars, genVars, inputVars, now >>
  /\ UNCHANGED << fs0, bs0, rsyncRan >>
  /\ UNCHANGED << rootHist, configHist, pureVars >>

\* process_systemd_service (lines 830-859), called at line 976: a failing
\* script execs the shell; any other exception is not caught.
ServiceToggler ==
  /\ pc = "systemd"
  /\ \/ /\ pc' = "flush"
        /\ UNCHANGED << outcome, toolsOk >>
     \/ /\ Emergency
        /\ toolsOk' = FALSE
     \/ /\ Crash
        /\ toolsOk' = FALSE
  /\ UNCHANGED << NodeConfig, network, rootVars, mounted, tmp, compare_ret, written >>
  /\ UNCHANGED << diskVars, syncVars, genVars, inputVars, now >>
  /\ UNCHANGED << fs0, bs0, rsyncRan >>
  /\ UNCHANGED << rootHist, configHist, pureVars >>

\* main(), lines 978-983: sync, then umount /sysroot; a CalledProcessError of
\* either is printed and main() goes on.
Flush ==
  /\ pc = "flush"
  /\ \E unmounted \in BOOLEAN :
       /\ mounted' = ~unmounted
       /\ toolsOk' = (toolsOk /\ unmounted)
  /\ pc' = "exec"
  /\ UNCHANGED << outcome, NodeConfig, network, rootVars, tmp, compare_ret, written >>
  /\ UNCHANGED << diskVars, syncVars, genVars, inputVars, now >>
  /\ UNCHANGED << fs0, bs0, rsyncRan >>
  /\ UNCHANGED << rootHist, configHist, pureVars >>

\* ------------------------------------------------------------ EXEC
\* main(), lines 985-993: os.execv of /tmp/kexec.sh; an OSError execs the shell.
Exec ==
  /\ pc = "exec"
  /\ \/ /\ pc' = "done"
        /\ outcome' = "EXEC"
        /\ UNCHANGED toolsOk
     \/ /\ Emergency
        /\ toolsOk' = FALSE
  /\ UNCHANGED << NodeConfig, network, rootVars, mounted, tmp, compare_ret, written >>
  /\ UNCHANGED << diskVars, syncVars, genVars, inputVars, now >>
  /\ UNCHANGED << fs0, bs0, rsyncRan >>
  /\ UNCHANGED << rootHist, configHist, pureVars >>

\* ------------------------------------------------------------ next boot
\* The machine boots the initramfs again: /tmp and the process state start
\* afresh, the disk is as the last run left it.
Reboot ==
  /\ pc = "done"
  /\ run < MaxRuns
  /\ run' = run + 1
  /\ now' = 0
  /\ disk0' = Disk
  /\ tmp' = tmp0
  /\ pc' = "early"
  /\ outcome' = "running"
  /\ NodeConfig' = NoConfig
  /\ network' = FALSE
  /\ devExists' = FALSE
  /\ mounted' = FALSE
  /\ retry_count' = 0
  /\ syncReturn' = "none"
  /\ compare_ret' = 0
  /\ toolsOk' = TRUE
  /\ rsyncCalls' = 0
  /\ syncerCalls' = 0
  /\ sleptSeconds' = 0
  /\ syncExhausted' = FALSE
  /\ partitionerCalls' = 0
  /\ genCalls' = 0
  /\ genFailed' = FALSE
  /\ bsWrites' = 0
  /\ written' = {}
  /\ fs0' = "none"
  /\ bs0' = NoMarker
  /\ rsyncRan' = FALSE
  /\ dev0' = "unknown"
  /\ type0' = "unknown"
  /\ provisionFailed' = FALSE
  /\ retry' = 0
  /\ mac' = "unknown"
  /\ requested' = FALSE
  /\ UNCHANGED << IgnitionConfig, tmp0, fsMarker0 >>
  /\ UNCHANGED diskVars
  /\ UNCHANGED pureVars

Next ==
  \/ EarlySetup
  \/ ReadNodeConfiguration
  \/ ReadIgnition
  \/ AssembleRaid
  \/ CheckDevice
  \/ CheckFilesystem
  \/ MountRoot
  \/ SyncIfNotInstalled
  \/ SyncIfRequested
  \/ RsyncSucceeded
  \/ CreateMarker
  \/ RsyncFailed
  \/ Sleep
  \/ GenerateIfAbsent
  \/ CompareTimestamp
  \/ Regenerate
  \/ Personalize
  \/ NetworkConfig
  \/ CopyToScratch
  \/ ServiceToggler
  \/ Flush
  \/ Exec
  \/ Reboot

Spec == Init /\ [][Next]_vars

\* ============================================================ claims
Terminated == pc = "done"

\* The positions of main() after the SYNC step (lines 916-993).
AfterSync ==
  {"handoff1", "compare", "regen", "personalize", "netcfg", "copy", "systemd", "flush", "exec"}

\* The run started on a fresh node: no filesystem on the root device, no
\* marker, nothing shipped in /tmp.
FreshNode ==
  /\ ~disk0.hasFs
  /\ ~disk0.fsMarker
  /\ ~disk0.bs.exists
  /\ tmp0 = {}

\* A valid ignition declaration and node configuration, as in scenario S1.
ValidInputs ==
  /\ IgnitionConfig.readable
  /\ IgnitionConfig.hasRoot
  /\ IgnitionConfig.uuid = "1111-AAAA"
  /\ NodeConfig \in NodeConfigSet
  /\ NodeConfig.config_timestamp.parses

\* C1: every run ends in EXEC or in EMERGENCY, never by an unhandled error.
C1_RunEndsInExecOrEmergency ==
  Terminated => outcome \in {"EXEC", "EMERGENCY"}

\* C2: a run on a fresh node with valid inputs in which every tool succeeds
\* ends in EXEC with the handoff script present.
C2_FreshNodeReachesExec ==
  (Terminated /\ FreshNode /\ ValidInputs /\ toolsOk)
    => (outcome = "EXEC" /\ bsMarker.exists)

\* C3: at EXEC the mtime of BOOTSTRAPPED_MARKER is at least config_timestamp.
C3_MarkerNotOlderThanConfig ==
  (outcome = "EXEC" /\ NodeConfig.config_timestamp.parses)
    => (bsMarker.exists /\ bsMarker.mtime >= NodeConfig.config_timestamp.secs)

\* C4: a run in which a handoff generation failed ends in EMERGENCY and never
\* reaches EXEC.
C4_FailedGenerationEndsInEmergency ==
  genFailed => (outcome # "EXEC" /\ (Terminated => outcome = "EMERGENCY"))

\* C5: a run that found BOOTSTRAPPED_MARKER older than config_timestamp and in
\* which every tool succeeded has rewritten the script when it reaches EXEC.
C5_StaleMarkerRewritten ==
  ( /\ outcome = "EXEC"
    /\ toolsOk
    /\ disk0.bs.exists
    /\ NodeConfig.config_timestamp.parses
    /\ NodeConfig.config_timestamp.secs > disk0.bs.mtime )
    => bsWrites >= 1

\* The HANDOFF step found a script that is not older than config_timestamp.
MarkerUpToDate ==
  /\ bs0.exists
  /\ NodeConfig.config_timestamp.parses
  /\ bs0.mtime >= NodeConfig.config_timestamp.secs

\* C6: when the HANDOFF step finds BOOTSTRAPPED_MARKER with an mtime not older
\* than config_timestamp (equal included), no generation is attempted and the
\* script keeps the content and mtime it had at the start of the run, up to EXEC.
C6_UpToDateMarkerUntouched ==
  (pc \in (AfterSync \ {"handoff1"}) \cup {"done"} /\ MarkerUpToDate)
    => (genCalls = 0 /\ bsWrites = 0 /\ bsMarker = bs0 /\ bsMarker = disk0.bs)

C6_Witness ==
  /\ outcome = "EXEC"
  /\ MarkerUpToDate
  /\ bs0.mtime = NodeConfig.config_timestamp.secs
  /\ NodeConfig.provisioning_status = "sync"
  /\ write_kexec_preconditions(tmp0)

\* C7: once the target root is mounted the rootfs syncer is called if and only
\* if FS_INSTALLED_MARKER was absent or provisioning_status is "sync"; with the
\* marker present and another status rsync is never invoked, nor is it before
\* the mount.
C7_SyncerIffNeeded ==
  /\ (pc \in AfterSync \/ outcome = "EXEC")
       => ((syncerCalls > 0) <=> (fs0 = "absent" \/ NodeConfig.provisioning_status = "sync"))
  /\ (rsyncRan \/ syncerCalls > 0)
       => (fs0 = "absent" \/ (fs0 = "present" /\ NodeConfig.provisioning_status = "sync"))

C7_Witness ==
  /\ outcome = "EXEC"
  /\ fs0 = "present"
  /\ NodeConfig.provisioning_status = "sync"
  /\ syncerCalls = 1
  /\ rsyncRan

\* C8: one call of transfer_rootfs invokes rsync at most max_retries times,
\* every invocation before a successful one has failed and none follows it,
\* delay seconds are slept between a failed invocation and the next, and the
\* call gives up exactly when max_retries invocations have failed.
C8_BoundedRetry ==
  /\ rsyncCalls <= max_retries
  /\ retry_count <= max_retries
  /\ pc = "rsync" => (rsyncCalls = retry_count /\ retry_count < max_retries
                        /\ sleptSeconds = delay * retry_count)
  /\ pc = "sleep" => (rsyncCalls = retry_count /\ retry_count < max_retries
                        /\ sleptSeconds = delay * (retry_count - 1))
  /\ pc = "installed" => (rsyncCalls = retry_count + 1 /\ retry_count < max_retries
                            /\ sleptSeconds = delay * retry_count /\ ~syncExhausted)
  /\ syncExhausted <=> (Terminated /\ retry_count = max_retries)
  /\ syncExhausted => (rsyncCalls = max_retries /\ outcome = "CRASH"
                         /\ sleptSeconds = delay * (max_retries - 1))

C8_Witness ==
  /\ pc = "installed"
  /\ retry_count = max_retries - 1
  /\ rsyncCalls = max_retries
  /\ sleptSeconds = delay * (max_retries - 1)

\* C9: when transfer_rootfs gives up, the run ends in EMERGENCY, with no
\* handoff script generated and no personalization file written.
C9_SyncExhaustedEndsInEmergency ==
  syncExhausted => (outcome = "EMERGENCY" /\ genCalls = 0 /\ written = {})

\* C10: on a target root that started without FS_INSTALLED_MARKER, over any
\* number of boots, the marker is there only when an rsync onto that
\* filesystem has succeeded.
C10_MarkerOnlyAfterSync ==
  (~fsMarker0 /\ fsMarker) => everSyncOk

C10_Witness ==
  /\ ~fsMarker0
  /\ fsMarker
  /\ everSyncOk
  /\ run > 1
  /\ pc = "sleep"

\* C11: the storage provisioner is run if and only if the root device node is
\* absent after the RAID assembly or the prober reports no filesystem type on
\* it; with the device present and a filesystem type reported it is never run.
C11_ProvisionerIffNeeded ==
  /\ (partitionerCalls > 0) <=> (dev0 = "absent" \/ type0 = "none")
  /\ (dev0 = "present" /\ type0 = "fs") => partitionerCalls = 0

C11_Witness ==
  /\ outcome = "EXEC"
  /\ dev0 = "present"
  /\ type0 = "none"
  /\ partitionerCalls = 1

\* C12: when the storage provisioner returns a failure the run ends in
\* EMERGENCY; the target root is not mounted, the rootfs syncer is not called
\* and no file of the target root is written.
C12_ProvisionFailureEndsInEmergency ==
  provisionFailed =>
    /\ outcome = "EMERGENCY"
    /\ ~mounted
    /\ syncerCalls = 0
    /\ ~rsyncRan
    /\ genCalls = 0
    /\ bsWrites = 0
    /\ written = {}

C12_Witness ==
  /\ provisionFailed
  /\ partitionerCalls = 2
  /\ dev0 = "absent"
  /\ type0 = "none"

\* C13: a run that ends without a node configuration although the network is
\* up has made config_attempts GETs, each failed attempt before the last being
\* followed by another, and ends in EMERGENCY.
C13_ConfigRetriedFiveTimes ==
  (Terminated /\ network /\ NodeConfig = NoConfig)
    => (outcome = "EMERGENCY" /\ retry = config_attempts)

\* tok is one of the pieces of the command line.
Contains(cmdline, tok) == \E i \in DOMAIN cmdline : cmdline[i] = tok

\* C14: the append string of a generated handoff script begins with
\* kernel_arguments, contains root=UUID=<u> exactly when the root filesystem
\* has a uuid, contains the three rd.md tokens exactly when the root device is
\* a RAID device, and for a root that is not is exactly kernel_arguments
\* followed by " root=UUID=<u>".
C14_AppendString ==
  bsWrites > 0 =>
    LET append == bsMarker.cmdline IN
    /\ append[1] = "kernel_arguments"
    /\ Contains(append, "root=UUID=") <=> (IgnitionConfig.uuid \notin {"absent", ""})
    /\ IgnitionConfig.md <=>
         (Contains(append, "rd.md=1") /\ Contains(append, "rd.md.auto=1") /\ Contains(append, "rd.md.uuid="))
    /\ ~IgnitionConfig.md =>
         append = << "kernel_arguments", " ", "root=UUID=", IgnitionConfig.uuid >>

\* C15: with a root filesystem entry that has no uuid and a root device that
\* is not a RAID device, a handoff generation whose other preconditions hold
\* writes a script with root=<device path> and no UUID token, and the run is
\* not ended by it.
C15_DevicePathFallback ==
  ( /\ genCalls > 0
    /\ IgnitionConfig.uuid = "absent"
    /\ ~IgnitionConfig.md
    /\ write_kexec_preconditions(tmp)
    /\ toolsOk )
    => ( /\ bsWrites > 0
         /\ ~genFailed
         /\ Contains(bsMarker.cmdline, "root=/dev/sda2")
         /\ ~Contains(bsMarker.cmdline, "root=UUID=") )

\* C16: after a run that reaches EXEC with every tool succeeding, whatever an
\* earlier run left on the target root, the file of the backend os_type
\* selects is there and the file of the other backend is not.
C16_BackendExclusive ==
  (outcome = "EXEC" /\ toolsOk)
    => ( /\ BackendFile(NodeConfig) \in rootfs
         /\ ({NETPLAN, IFCFG} \ {BackendFile(NodeConfig)}) \cap rootfs = {} )

\* C17: when EXEC is reached the target root holds hostname, resolv.conf,
\* authorized_keys, the network config file of the selected backend and
\* BOOTSTRAPPED_MARKER.
C17_FilesPresentAtExec ==
  outcome = "EXEC"
    => ( /\ {HOSTNAME, RESOLV, AUTHKEYS} \subseteq rootfs
         /\ BackendFile(NodeConfig) \in rootfs
         /\ bsMarker.exists )

\* The target root d as a run with node configuration cfg leaves it when it
\* reaches EXEC and every tool has succeeded: the image, both markers, the
\* personalization files and the backend's file, and no YAML file when the
\* backend is not the declarative one.
LeftBySuccess(d, cfg) ==
  /\ d.fsMarker
  /\ d.bs.exists
  /\ ImageFiles \subseteq d.rootfs
  /\ {HOSTNAME, RESOLV, AUTHKEYS, BackendFile(cfg)} \subseteq d.rootfs
  /\ (BackendFile(cfg) # NETPLAN => NETPLAN \notin d.rootfs)

\* The run is the second of two with the same node configuration: it started
\* on the target root the first left, no resync is asked for and the script
\* is not older than config_timestamp.
SecondRunOfSameConfig ==
  /\ NodeConfig \in NodeConfigSet
  /\ LeftBySuccess(disk0, NodeConfig)
  /\ NodeConfig.provisioning_status # "sync"
  /\ NodeConfig.config_timestamp.parses
  /\ disk0.bs.mtime >= NodeConfig.config_timestamp.secs

\* C18: a run that reaches EXEC with every tool succeeding leaves the target
\* root as LeftBySuccess says; a second run with the same node configuration
\* on that target root, in which every tool succeeds, calls neither the
\* storage provisioner nor the rootfs syncer nor the handoff script builder
\* and leaves every file and both markers of the target root as it found them.
C18_Idempotent ==
  /\ (outcome = "EXEC" /\ toolsOk) => LeftBySuccess(Disk, NodeConfig)
  /\ (SecondRunOfSameConfig /\ toolsOk)
       => ( /\ partitionerCalls = 0
            /\ syncerCalls = 0
            /\ genCalls = 0
            /\ bsWrites = 0
            /\ (outcome = "EXEC" => Disk = disk0) )

C18_Witness ==
  /\ SecondRunOfSameConfig
  /\ toolsOk
  /\ run = 2
  /\ outcome = "EXEC"
  /\ Disk = disk0

\* C20: at every position of main() before the copy of the kernel and the
\* initrd into /tmp (lines 971-972) the handoff script builder has not been
\* invoked in this run.
C20_GenerationAfterCopy ==
  pc \in {"handoff1", "compare", "regen", "personalize", "netcfg", "copy"} => genCalls = 0

\* C22: EXEC is entered only after sync and the unmount of the target root
\* have both succeeded (a failure of either leads to EMERGENCY), and after the
\* personal files were written and the kernel, the initrd and the script were
\* copied to /tmp.
C22_ExecOnlyAfterFlush ==
  outcome = "EXEC" =>
    /\ ~mounted
    /\ { PersonalFiles[i] : i \in DOMAIN PersonalFiles } \subseteq written
    /\ {TMP_VMLINUZ, TMP_INITRD, TMP_KEXEC} \subseteq tmp

\* C23: a run with os_type "dgx" that reaches EXEC leaves no .yaml file in the
\* declarative-YAML directory and the <interface>.cfg of the declared
\* interface; a run with another os_type leaves no .yaml file but the one it
\* wrote itself.
C23_PurgeBeforeWrite ==
  outcome = "EXEC" =>
    IF NodeConfig.os_type = "dgx"
      THEN NETPLAN \notin rootfs /\ IFCFG \in rootfs
      ELSE NETPLAN \in rootfs => NETPLAN \in written

\* C26: when no interface owns the outbound address no HTTP request is issued
\* in that run, and the run ends in EMERGENCY.
C26_NoRequestWithoutMac ==
  mac = "none" =>
    /\ ~requested
    /\ pc = "done" => outcome = "EMERGENCY"

\* C27: within one run the storage provisioner is invoked at most once.
C27_ProvisionerAtMostOnce == partitionerCalls <= 1

\* C28: within one run transfer_rootfs is called at most once.
C28_SyncerAtMostOnce == syncerCalls <= 1

TargetRootWritten ==
  \/ fsMarker' /\ ~fsMarker
  \/ bsWrites' > bsWrites
  \/ ~(rootfs' \subseteq rootfs)
  \/ ~(written' \subseteq written)

\* C30: files under the target root are written only while the root device is
\* mounted at /sysroot: never before a successful mount, never after the
\* unmount.
C30_WritesOnlyWhileMounted ==
  [][ TargetRootWritten => (mounted /\ mounted') ]_vars

\* The network config has been written, the root device being mounted.
C30_Witness ==
  /\ pc = "copy"
  /\ mounted
  /\ BackendFile(NodeConfig) \in written

\* ============================================================ functions on their own
\* The state of main() while a function is applied on its own: main() is not
\* running and nothing of it changes.
NotRunning ==
  /\ pc = "off"
  /\ outcome = "running"
  /\ run = 1
  /\ now = 0
  /\ IgnitionConfig = [readable |-> FALSE, hasRoot |-> FALSE, md |-> FALSE, uuid |-> "absent"]
  /\ NodeConfig = NoConfig
  /\ network = FALSE
  /\ tmp0 = {}
  /\ tmp = {}
  /\ partitioned = FALSE
  /\ devExists = FALSE
  /\ hasFs = FALSE
  /\ mounted = FALSE
  /\ fsMarker = FALSE
  /\ bsMarker = NoMarker
  /\ rootfs = {}
  /\ retry_count = 0
  /\ syncReturn = "none"
  /\ compare_ret = 0
  /\ toolsOk = TRUE
  /\ rsyncCalls = 0
  /\ syncerCalls = 0
  /\ sleptSeconds = 0
  /\ syncExhausted = FALSE
  /\ partitionerCalls = 0
  /\ genCalls = 0
  /\ genFailed = FALSE
  /\ bsWrites = 0
  /\ written = {}
  /\ disk0 = [partitioned |-> FALSE, hasFs |-> FALSE, fsMarker |-> FALSE, rootfs |-> {}, bs |-> NoMarker]
  /\ fs0 = "none"
  /\ bs0 = NoMarker
  /\ rsyncRan = FALSE
  /\ dev0 = "unknown"
  /\ type0 = "unknown"
  /\ provisionFailed = FALSE
  /\ retry = 0
  /\ mac = "unknown"
  /\ requested = FALSE
  /\ fsMarker0 = FALSE
  /\ everSyncOk = FALSE

mainVars ==
  << pc, outcome, run, now, IgnitionConfig, NodeConfig, network, tmp0, tmp,
     partitioned, devExists, hasFs, mounted, fsMarker, bsMarker, rootfs,
     retry_count, syncReturn, compare_ret,
     toolsOk, rsyncCalls, syncerCalls, sleptSeconds, syncExhausted,
     partitionerCalls, genCalls, genFailed, bsWrites, written, disk0,
     fs0, bs0, rsyncRan, dev0, type0, provisionFailed, retry, mac, requested,
     fsMarker0, everSyncOk >>

\* Service names of NodeConfig["systemd"].
Services == {"ssh", "cron", "ufw"}

\* The lists NodeConfig["systemd"]["enable"] and ["disable"] can be.
ServiceLists == UNION { [1..n -> Services] : n \in 0..MaxServices }

\* One line of /tmp/systemd_services.sh.
Line(cmd, what) == [cmd |-> cmd, arg |-> what]

\* process_systemd_service, lines 835-851: the script it writes, line by line.
\* The bind mounts, then one `chroot /bin/bash -c 'systemctl enable <svc>'`
\* for each service of systemd.enable, then one
\* `chroot /bin/bash -c 'systemctl disable <svc>'` for each service of
\* systemd.enable again (line 844 iterates over "enable"), then the umounts.
chroot_script(enable, disable) ==
  << Line("mount --bind", "/dev"), Line("mount --bind", "/proc"), Line("mount --bind", "/sys") >>
  \o [i \in 1..Len(enable) |-> Line("systemctl enable", enable[i])]
  \o [i \in 1..Len(enable) |-> Line("systemctl disable", enable[i])]
  \o << Line("umount", "/sys"), Line("umount", "/proc"), Line("umount", "/dev") >>

\* ------------------------------------------------------------ assemble_raid
\* The arrays mdstat.parse() reports as active (lines 285-287), in its order.
ActiveArrays == << "md124", "md125", "md126", "md127" >>

\* What each `mdadm --stop` does: one outcome per active array.
StopOutcomes == UNION { [1..n -> BOOLEAN] : n \in 0..MaxArrays }

\* assemble_raid (lines 278-296) for an md root with its entry in
\* storage.raid.  run_command raises CalledProcessError for a command that
\* fails (check_success is True), and the stops and the assemble are in one
\* try block: the first failed stop leaves the block, the except clause prints
\* and the function returns False.  The commands run, and the value returned.
assemble_raid(stopOk, assembleOk) ==
  LET failed == { i \in DOMAIN stopOk : ~stopOk[i] }
      last == IF failed = {} THEN Len(stopOk)
              ELSE CHOOSE i \in failed : \A j \in failed : i <= j
      stops == [i \in 1..last |-> Line("mdadm --stop", ActiveArrays[i])]
  IN IF failed # {}
       THEN [commands |-> stops, ret |-> FALSE]
       ELSE [commands |-> Append(stops, Line("mdadm --assemble", "/dev/md0")),
             ret |-> assembleOk]

\* ------------------------------------------------------------ network backends
\* One entry of NodeConfig["interfaces"]; "" stands for a key that is absent
\* or whose value is falsy, which the .get() tests of the generators do not
\* tell apart.  `macaddress` is not a key of the data model, the line-oriented
\* generator reads it (line 749).
MAC == "aa:bb:cc:dd:ee:01"
GATEWAY == "10.0.0.1"
RouteSet == [ip_or_range : {"", "10.1.0.0/16", "10.2.0.0/16"}, default : BOOLEAN]
RouteLists == UNION { [1..n -> RouteSet] : n \in 0..MaxRoutes }
InterfaceSet ==
  [mac : {"", MAC}, macaddress : {"", MAC},
   ipv4 : {"", "10.0.0.5", "10.0.0.555"}, netmask : {"", "255.255.255.0"},
   gateway : {"", GATEWAY}, routes : RouteLists]

\* Lines 668-677 and 754-764: both values are there and IPv4Interface takes
\* them.
AddressParses(interface_config) ==
  /\ interface_config.ipv4 = "10.0.0.5"
  /\ interface_config.netmask = "255.255.255.0"

\* The test of lines 690-696 and 777-778 that keeps a default route too.
RouteKept_DefaultToo(route) == route.ip_or_range # ""

\* Lines 690-696 and 777-778: a route produces an entry when `to` is truthy
\* and `default` is not.
RouteKept(route) == route.ip_or_range # "" /\ ~route.default

\* The loop over `routes` (lines 686-696, 773-784): the destinations of the
\* routes kept, in input order.
RECURSIVE StaticRoutes(_)
StaticRoutes(routes) ==
  IF routes = << >> THEN << >>
  ELSE (IF RouteKept(Head(routes)) THEN << Head(routes).ip_or_range >> ELSE << >>)
       \o StaticRoutes(Tail(routes))

\* generate_netplan_yaml (lines 657-698): the ethernets entry of one interface;
\* macaddress "" stands for no such key, via "" for a route without `via`.
\* str(IPv4Interface) is the address with the prefix length of the netmask.
generate_netplan_yaml(interface_config) ==
  LET static == StaticRoutes(interface_config.routes) IN
  [dhcp4 |-> FALSE,
   macaddress |-> interface_config.mac,
   addresses |-> IF AddressParses(interface_config)
                   THEN << << interface_config.ipv4, "/24" >> >> ELSE << >>,
   routes |-> (IF interface_config.gateway # ""
                 THEN << [to |-> "0.0.0.0/0", via |-> interface_config.gateway] >>
                 ELSE << >>)
              \o [i \in 1..Len(static) |-> [to |-> static[i], via |-> ""]]]

\* generate_ifupdown_interfaces (lines 741-788): the lines of one interface's
\* file.
generate_ifupdown_interfaces(interface_name, interface_config) ==
  LET static == StaticRoutes(interface_config.routes) IN
  << Line("auto", interface_name), Line("iface inet static", interface_name) >>
  \o (IF interface_config.macaddress # ""
        THEN << Line("hwaddress ether", interface_config.macaddress) >> ELSE << >>)
  \o (IF AddressParses(interface_config)
        THEN << Line("address", interface_config.ipv4),
                Line("netmask", interface_config.netmask) >>
        ELSE << >>)
  \o (IF interface_config.gateway # ""
        THEN << Line("gateway", interface_config.gateway) >> ELSE << >>)
  \o [i \in 1..Len(static) |-> Line("post-up ip route add", static[i])]

\* ------------------------------------------------------------ the functions applied
\* A function is about to be applied to its arguments.
InitFunctions ==
  /\ NotRunning
  /\ applied = FALSE
  /\ result = << >>
  /\ \/ /\ fn = "process_systemd_service"
        /\ arg \in [enable : ServiceLists, disable : ServiceLists]
     \/ /\ fn = "assemble_raid"
        /\ arg \in [stops : StopOutcomes, assembles : BOOLEAN]
     \/ /\ fn \in {"generate_netplan_yaml", "generate_ifupdown_interfaces"}
        /\ arg \in InterfaceSet

\* process_systemd_service (lines 830-856) builds its script.
ApplyServiceToggler ==
  /\ fn = "process_systemd_service"
  /\ ~applied
  /\ applied' = TRUE
  /\ result' = chroot_script(arg.enable, arg.disable)
  /\ UNCHANGED << fn, arg, mainVars >>

\* assemble_raid (lines 278-296) returns.
ApplyAssembleRaid ==
  /\ fn = "assemble_raid"
  /\ ~applied
  /\ applied' = TRUE
  /\ result' = assemble_raid(arg.stops, arg.assembles)
  /\ UNCHANGED << fn, arg, mainVars >>

\* generate_netplan_yaml (lines 638-705) returns.
ApplyNetplan ==
  /\ fn = "generate_netplan_yaml"
  /\ ~applied
  /\ applied' = TRUE
  /\ result' = generate_netplan_yaml(arg)
  /\ UNCHANGED << fn, arg, mainVars >>

\* generate_ifupdown_interfaces (lines 729-791) returns.
ApplyIfupdown ==
  /\ fn = "generate_ifupdown_interfaces"
  /\ ~applied
  /\ applied' = TRUE
  /\ result' = generate_ifupdown_interfaces("eno1", arg)
  /\ UNCHANGED << fn, arg, mainVars >>

NextFunctions ==
  \/ ApplyServiceToggler
  \/ ApplyAssembleRaid
  \/ ApplyNetplan
  \/ ApplyIfupdown

SpecFunctions == InitFunctions /\ [][NextFunctions]_vars

\* The services the script runs `systemctl <verb>` for.
Toggled(script, verb) ==
  { script[i].arg : i \in { j \in DOMAIN script : script[j].cmd = verb } }

\* The elements of a list.
Range(list) == { list[i] : i \in DOMAIN list }

\* C19: the script enables exactly the services of systemd.enable and disables
\* exactly those of systemd.disable, between the bind mounts of /dev, /proc,
\* /sys and their umounts in the order /sys, /proc, /dev.
C19_ServiceToggler ==
  (fn = "process_systemd_service" /\ Len(result) > 0) =>
    LET n == Len(result) IN
    /\ Toggled(result, "systemctl enable") = Range(arg.enable)
    /\ Toggled(result, "systemctl disable") = Range(arg.disable)
    /\ SubSeq(result, 1, 3)
         = << Line("mount --bind", "/dev"), Line("mount --bind", "/proc"), Line("mount --bind", "/sys") >>
    /\ SubSeq(result, n - 2, n)
         = << Line("umount", "/sys"), Line("umount", "/proc"), Line("umount", "/dev") >>
    /\ \A i \in 4..(n - 3) : result[i].cmd \in {"systemctl enable", "systemctl disable"}

\* C21: for an md root every active array is stopped, also after a stop that
\* failed; the declared array is assembled after all the stops, and
\* assemble_raid returns true exactly when the assemble succeeded.
C21_StopFailureTolerated ==
  (fn = "assemble_raid" /\ applied) =>
    LET n == Len(arg.stops) IN
    /\ Len(result.commands) = n + 1
    /\ \A i \in 1..n : result.commands[i] = Line("mdadm --stop", ActiveArrays[i])
    /\ result.commands[n + 1] = Line("mdadm --assemble", "/dev/md0")
    /\ result.ret = arg.assembles

\* The places of the lines of a file that start with `cmd`.
Places(lines, cmd) == { i \in DOMAIN lines : lines[i].cmd = cmd }

\* C24: for an entry with `mac` the file has the line `hwaddress ether <mac>`
\* after `iface <name> inet static` and before the address lines; for an entry
\* without `mac` it has no hwaddress line.
C24_HwaddressFromMac ==
  (fn = "generate_ifupdown_interfaces" /\ applied) =>
    IF arg.mac # ""
      THEN \E i \in DOMAIN result :
             /\ result[i] = Line("hwaddress ether", arg.mac)
             /\ \A j \in Places(result, "iface inet static") : j < i
             /\ \A j \in Places(result, "address") \cup Places(result, "netmask") : i < j
      ELSE Places(result, "hwaddress ether") = {}

\* The routes list the declarative-YAML backend is to give for an entry: the
\* gateway's default route if a gateway is set, then {to: ip_or_range} for the
\* elements of `routes` that `listed` holds of, in input order.
RoutesExpected(interface_config, listed(_)) ==
  LET elements == SelectSeq(interface_config.routes, listed) IN
  (IF interface_config.gateway # ""
     THEN << [to |-> "0.0.0.0/0", via |-> interface_config.gateway] >> ELSE << >>)
  \o [i \in 1..Len(elements) |-> [to |-> elements[i].ip_or_range, via |-> ""]]

\* C25 as stated: the routes list has the gateway's entry first iff a gateway
\* is set, then one entry for each element of `routes` whose `default` is
\* falsy, in input order; dhcp4 is false.
C25_RoutesList ==
  (fn = "generate_netplan_yaml" /\ applied) =>
    /\ result.dhcp4 = FALSE
    /\ result.routes = RoutesExpected(arg, LAMBDA route : ~route.default)

\* C25 amended: ... then one entry for each element of `routes` whose
\* `default` is falsy and whose `ip_or_range` is present and not empty, in
\* input order; elements whose `default` is true or that have no
\* `ip_or_range` never produce an entry; dhcp4 is false.
C25_RoutesListOfDestinations ==
  (fn = "generate_netplan_yaml" /\ applied) =>
    /\ result.dhcp4 = FALSE
    /\ result.routes
         = RoutesExpected(arg, LAMBDA route : ~route.default /\ route.ip_or_range # "")

\* An entry with a gateway, a default route and a route to a network has been
\* turned into its two routes.
C25_Witness ==
  /\ fn = "generate_netplan_yaml"
  /\ applied
  /\ arg.gateway # ""
  /\ Len(arg.routes) = 2
  /\ arg.routes[1].default
  /\ arg.routes[2] = [ip_or_range |-> "10.1.0.0/16", default |-> FALSE]
  /\ Len(result.routes) = 2

====
